---- MODULE Spec2Model ----
(***************************************************************************)
(* dm-zoned-tools, src/dmz_dev.c: address translation, zone table build,   *)
(* device open checks, metadata block I/O and sync of a composite device.  *)
(*                                                                         *)
(* __u64 quantities are kept as integers; every magnitude in the model is  *)
(* far below 2^63, so a value that wrapped below zero in the C arithmetic  *)
(* is represented by the negative integer v standing for 2^64 + v (so      *)
(* (__u64)-1 is -1).  U64Lt is the unsigned order on that representation.  *)
(***************************************************************************)
EXTENDS Integers, Sequences, FiniteSets, TLC

\* ---------------------------------------------------------------- bounds
MaxBdev == 2
MaxTotalBlocks == 5
MaxZoneBlocks == 2
MaxData == 2
MaxIOBlocks == 4

\* ------------------------------------------------------------- constants
DMZ_BLOCK_SHIFT == 12
DMZ_BLOCK_SECTORS_SHIFT == 3
SECTOR_SHIFT == 9

DMZ_BLOCK_SIZE == 2 ^ DMZ_BLOCK_SHIFT

dmz_blk2sect(b) == b * 2 ^ DMZ_BLOCK_SECTORS_SHIFT
dmz_sect2blk(s) == s \div 2 ^ DMZ_BLOCK_SECTORS_SHIFT

U64_MAX == -1
U64Lt(a, b) == IF (a >= 0) = (b >= 0) THEN a < b ELSE a >= 0
U64Ge(a, b) == ~U64Lt(a, b)

Kinds == {"DMZ_TYPE_REGULAR", "DMZ_TYPE_ZONED_HA", "DMZ_TYPE_ZONED_HM"}

VARIABLES
  bdev,             \* dev->bdev[]: sequence of backend descriptors
  dev_capacity,     \* dev->capacity (sectors)
  zone_nr_sectors,  \* dev->zone_nr_sectors
  dev_nr_zones,     \* dev->nr_zones
  zones,            \* dev->zones[] (0-based index i is zones[i+1])
  q,                \* last address translation call and its result
  zb,               \* locals of dmz_get_dev_zones
  ob,               \* dmz_open_bdev: environment, arguments and outcome
  disk,             \* contents of the backends, by fd and byte offset
  io,               \* last dmz_read_block / dmz_write_block call and result
  sy                \* dmz_sync_dev: position, flush log and result

vars == <<bdev, dev_capacity, zone_nr_sectors, dev_nr_zones, zones,
          q, zb, ob, disk, io, sy>>

\* ------------------------------------------------------ composite device
RECURSIVE SumTo(_, _)
SumTo(f, n) == IF n = 0 THEN 0 ELSE f[n] + SumTo(f, n - 1)

CeilDiv(a, b) == (a \div b) + (IF a % b # 0 THEN 1 ELSE 0)

\* Backends in ascending offset order, offset[i+1] = offset[i] + capacity
\* in blocks; zone count as computed at lines 268-270.
MkBdev(n, kind, capb, zs) ==
  [i \in 1..n |->
     [type         |-> kind[i],
      capacity     |-> dmz_blk2sect(capb[i]),
      nr_zones     |-> CeilDiv(dmz_blk2sect(capb[i]), zs),
      block_offset |-> SumTo(capb, i - 1)]]

Composites ==
  UNION { { [bdev |-> MkBdev(n, kind, capb, dmz_blk2sect(zb_)),
             zone_nr_sectors |-> dmz_blk2sect(zb_)] :
              kind \in [1..n -> Kinds],
              capb \in { f \in [1..n -> 1..MaxTotalBlocks] :
                            SumTo(f, n) <= MaxTotalBlocks },
              zb_ \in 1..MaxZoneBlocks } : n \in 1..MaxBdev }

\* Addresses queried: every one inside the largest composite and a few past
\* its end.
Addrs == 0..(dmz_blk2sect(MaxTotalBlocks) + 2)

TotalCapacity(bd) == SumTo([i \in 1..Len(bd) |-> bd[i].capacity], Len(bd))
TotalBlocks(bd) ==
  SumTo([i \in 1..Len(bd) |-> dmz_sect2blk(bd[i].capacity)], Len(bd))

\* ---------------------------------------------------- address translation
\* The for loop of lines 37-42: i from nr_bdev - 1 down to 0 (here n..1).
RECURSIVE ScanBlock(_, _, _)
ScanBlock(bd, block, i) ==
  IF i = 0 THEN [bdev |-> 0, ret |-> U64_MAX]
  ELSE IF U64Ge(block, bd[i].block_offset)
       THEN [bdev |-> i, ret |-> block - bd[i].block_offset]
       ELSE ScanBlock(bd, block, i - 1)

\* Mutant: the scan runs from the lowest offset up.
RECURSIVE ScanBlockUp(_, _, _)
ScanBlockUp(bd, block, i) ==
  IF i > Len(bd) THEN [bdev |-> 0, ret |-> U64_MAX]
  ELSE IF U64Ge(block, bd[i].block_offset)
       THEN [bdev |-> i, ret |-> block - bd[i].block_offset]
       ELSE ScanBlockUp(bd, block, i + 1)

dmz_block_to_bdev_ascending(bd, block) == ScanBlockUp(bd, block, 1)

dmz_block_to_bdev(bd, block) == ScanBlock(bd, block, Len(bd))

RECURSIVE ScanSector(_, _, _)
ScanSector(bd, sector, i) ==
  IF i = 0 THEN [bdev |-> 0, ret |-> U64_MAX]
  ELSE IF U64Ge(sector, dmz_blk2sect(bd[i].block_offset))
       THEN [bdev |-> i, ret |-> sector - dmz_blk2sect(bd[i].block_offset)]
       ELSE ScanSector(bd, sector, i - 1)

dmz_sector_to_bdev(bd, sector) == ScanSector(bd, sector, Len(bd))

NoQuery == [kind |-> "none", addr |-> 0, bdev |-> 0, ret |-> 0]
ZbIdle == [pc |-> "idle"]
ObIdle == [pc |-> "idle"]
IoIdle == [op |-> "none"]
SyIdle == [pc |-> "idle"]

InitComposite ==
  \E c \in Composites :
    /\ bdev = c.bdev
    /\ zone_nr_sectors = c.zone_nr_sectors
    /\ dev_capacity = TotalCapacity(c.bdev)
    /\ dev_nr_zones = 0
    /\ zones = <<>>

\* Translation and block I/O read only block_offset, capacity and the
\* descriptor of a backend: one kind and one zone size stand for all.
PlainComposite ==
  /\ zone_nr_sectors = dmz_blk2sect(1)
  /\ \A j \in 1..Len(bdev) : bdev[j].type = "DMZ_TYPE_ZONED_HM"

InitXlate ==
  /\ InitComposite
  /\ PlainComposite
  /\ q = NoQuery /\ zb = ZbIdle /\ ob = ObIdle /\ io = IoIdle /\ sy = SyIdle
  /\ disk = <<>>

BlockToBdev ==
  \E block \in Addrs :
    /\ q' = [kind |-> "block", addr |-> block,
             bdev |-> dmz_block_to_bdev(bdev, block).bdev,
             ret |-> dmz_block_to_bdev(bdev, block).ret]
    /\ UNCHANGED <<bdev, dev_capacity, zone_nr_sectors, dev_nr_zones, zones,
                   zb, ob, disk, io, sy>>

SectorToBdev ==
  \E sector \in Addrs :
    /\ q' = [kind |-> "sector", addr |-> sector,
             bdev |-> dmz_sector_to_bdev(bdev, sector).bdev,
             ret |-> dmz_sector_to_bdev(bdev, sector).ret]
    /\ UNCHANGED <<bdev, dev_capacity, zone_nr_sectors, dev_nr_zones, zones,
                   zb, ob, disk, io, sy>>

NextXlate == BlockToBdev \/ SectorToBdev
SpecXlate == InitXlate /\ [][NextXlate]_vars

\* ------------------------------------------------------ zone table build
MaxLies == 1

Min(a, b) == IF a < b THEN a ELSE b

\* calloc'd struct blk_zone
ZeroZone ==
  [start |-> 0, len |-> 0, wp |-> 0, type |-> "0", cond |-> "0",
   capacity |-> 0]

dmz_zone_sector(z) == z.start
dmz_zone_length(z) == z.len

\* Mutant: the capacity field is never looked at.
dmz_zone_capacity_ignored(have_v2, z) == dmz_zone_length(z)

\* Both builds of dmz_zone_capacity; have_v2 is HAVE_BLK_ZONE_REP_V2.
dmz_zone_capacity(have_v2, z) ==
  IF have_v2
  THEN (IF z.capacity = 0 THEN dmz_zone_length(z) ELSE z.capacity)
  ELSE dmz_zone_length(z)

\* The zone a backend really has at index k (backend-local sectors).
TrueZone(b, k, zs, cap) ==
  [start |-> k * zs,
   len |-> Min(zs, b.capacity - k * zs),
   wp |-> k * zs, type |-> "SEQWRITE_REQ", cond |-> "EMPTY",
   capacity |-> cap]

\* The entries one reply of BLKREPORTZONE may hold at the position where
\* the backend's zone k is due.  kind tells the entry apart: "true" is the
\* backend's own zone, "shrunk" the same zone declaring a capacity below
\* its length, "lie" an entry that is not a zone of the backend.
ReplyEntries(b, k, zs, c) ==
  LET valid == IF c.have_v2 /\ c.kernel_cap
               THEN Min(zs, b.capacity - k * zs) ELSE 0
      true == IF k < b.nr_zones
              THEN {[kind |-> "true", z |-> TrueZone(b, k, zs, valid)]}
              ELSE {}
      shrunk == IF k < b.nr_zones /\ c.have_v2 /\ c.kernel_cap
                THEN {[kind |-> "shrunk",
                       z |-> TrueZone(b, k, zs, valid \div 2)]}
                ELSE {}
      lie == IF c.lies < MaxLies
             THEN {[kind |-> "lie",
                    z |-> [start |-> dmz_blk2sect(s), len |-> dmz_blk2sect(l),
                           wp |-> dmz_blk2sect(s), type |-> "SEQWRITE_REQ",
                           cond |-> "EMPTY",
                           capacity |-> IF c.have_v2 /\ c.kernel_cap
                                        THEN dmz_blk2sect(l) ELSE 0]] :
                     s \in 0..dmz_sect2blk(b.capacity),
                     l \in 1..(MaxZoneBlocks + 1)}
             ELSE {}
  IN true \cup shrunk \cup lie

InitZones ==
  /\ InitComposite
  /\ \E v2 \in BOOLEAN, kc \in BOOLEAN :
       \* a build without the capacity field never sees one
       /\ kc => v2
       /\ zb = [pc |-> "idle", have_v2 |-> v2, kernel_cap |-> kc,
             sector |-> 0, nr_zones |-> 0, ret |-> -1, d |-> 0,
             k |-> 0, lies |-> 0, shrunk |-> FALSE, store |-> -1,
             msg |-> "none"]
  /\ q = NoQuery /\ ob = ObIdle /\ io = IoIdle /\ sy = SyIdle
  /\ disk = <<>>

ZUnch == UNCHANGED <<bdev, dev_capacity, zone_nr_sectors, q, ob, disk, io, sy>>

\* Lines 472-495: the checks after the while loop, giving the return value.
FinalCheck(c) ==
  IF dev_nr_zones # c.nr_zones
  THEN [c EXCEPT !.pc = "done", !.ret = -1, !.msg = "nr_zones"]
  ELSE IF c.sector # c.nr_zones * zone_nr_sectors
       THEN [c EXCEPT !.pc = "done", !.ret = -1, !.msg = "last_sector"]
       ELSE [c EXCEPT !.pc = "done"]

\* Lines 360-382: count the zones, allocate, initialise the cursor.
GetDevZonesBegin ==
  /\ zb.pc = "idle"
  /\ LET n == SumTo([j \in 1..Len(bdev) |-> bdev[j].nr_zones], Len(bdev)) IN
       /\ dev_nr_zones' = n
       /\ \/ /\ zones' = [j \in 1..n |-> ZeroZone]
             /\ zb' = [zb EXCEPT !.pc = "while", !.sector = 0, !.nr_zones = 0]
          \/ \* calloc or malloc returned NULL
             /\ zones' \in {<<>>, [j \in 1..n |-> ZeroZone]}
             /\ zb' = [zb EXCEPT !.pc = "done", !.ret = -1, !.msg = "nomem"]
  /\ ZUnch

\* Line 383 false: leave the loop and run the final checks.
WhileExit ==
  /\ zb.pc = "while"
  /\ ~U64Lt(zb.sector, dev_capacity)
  /\ zb' = FinalCheck(zb)
  /\ UNCHANGED <<dev_nr_zones, zones>>
  /\ ZUnch

\* Lines 387-405: one emulated zone of a regular backend.
EmulateZone ==
  /\ zb.pc = "while"
  /\ U64Lt(zb.sector, dev_capacity)
  /\ LET loc == dmz_sector_to_bdev(bdev, zb.sector)
         b == bdev[loc.bdev]
         start == zb.sector
         zone_len == IF U64Lt(b.capacity, start + zone_nr_sectors)
                     THEN b.capacity - start
                     ELSE zone_nr_sectors
         blkz == [ZeroZone EXCEPT !.start = start, !.len = zone_len,
                                  !.wp = U64_MAX, !.type = "UNKNOWN",
                                  !.cond = "NOT_WP"]
     IN
       /\ b.type = "DMZ_TYPE_REGULAR"
       /\ IF zb.nr_zones < dev_nr_zones
          THEN /\ zones' = [zones EXCEPT ![zb.nr_zones + 1] = blkz]
               /\ zb' = [zb EXCEPT !.nr_zones = @ + 1,
                                   !.sector = @ + zone_nr_sectors,
                                   !.store = zb.nr_zones]
          ELSE \* store past the end of dev->zones: undefined behaviour
               /\ zones' = zones
               /\ \/ zb' = [zb EXCEPT !.nr_zones = @ + 1,
                                      !.sector = @ + zone_nr_sectors,
                                      !.store = zb.nr_zones]
                  \/ zb' = [zb EXCEPT !.pc = "crash", !.store = zb.nr_zones]
  /\ UNCHANGED dev_nr_zones
  /\ ZUnch

\* Lines 407-425: BLKREPORTZONE on a zoned backend.
ReportZones ==
  /\ zb.pc = "while"
  /\ U64Lt(zb.sector, dev_capacity)
  /\ LET loc == dmz_sector_to_bdev(bdev, zb.sector)
         b == bdev[loc.bdev]
     IN
       /\ b.type # "DMZ_TYPE_REGULAR"
       /\ \/ zb' = [zb EXCEPT !.pc = "done", !.ret = -1, !.msg = "ioctl"]
          \/ \* an empty report, which no backend owes at a sector it has
             /\ zb.lies < MaxLies
             /\ zb' = FinalCheck([zb EXCEPT !.ret = 0, !.lies = @ + 1])
          \/ zb' = [zb EXCEPT !.pc = "for", !.ret = 0, !.d = loc.bdev,
                              !.k = loc.ret \div zone_nr_sectors]
  /\ UNCHANGED <<dev_nr_zones, zones>>
  /\ ZUnch

\* Lines 428-468: one pass of the for loop over the report's zones.
ReportedZone ==
  /\ zb.pc = "for"
  /\ LET b == bdev[zb.d]
         sector_offset == dmz_blk2sect(b.block_offset)
     IN \E e \in ReplyEntries(b, zb.k, zone_nr_sectors, zb) :
       LET blkz == e.z
           c == [zb EXCEPT !.lies = IF e.kind = "lie" THEN @ + 1 ELSE @,
                           !.shrunk = @ \/ e.kind = "shrunk",
                           !.k = @ + 1]
           stored == [blkz EXCEPT !.start = @ + sector_offset,
                                  !.wp = @ + sector_offset]
       IN
         IF /\ dmz_zone_length(blkz) # zone_nr_sectors
            /\ dmz_zone_sector(blkz) + dmz_zone_length(blkz) # b.capacity
         THEN /\ zb' = [c EXCEPT !.pc = "done", !.ret = -1, !.msg = "size"]
              /\ zones' = zones
         ELSE IF dmz_zone_capacity(zb.have_v2, blkz) < dmz_zone_length(blkz)
         THEN /\ zb' = [c EXCEPT !.pc = "done", !.ret = -1,
                                 !.msg = "capacity"]
              /\ zones' = zones
         ELSE IF zb.nr_zones >= dev_nr_zones
         THEN /\ zb' = [c EXCEPT !.pc = "done", !.ret = -1, !.msg = "start"]
              /\ zones' = zones
         ELSE /\ zones' = [zones EXCEPT ![zb.nr_zones + 1] = stored]
              /\ \E more \in BOOLEAN :  \* the report holds another zone
                   zb' = [c EXCEPT
                        !.pc = IF more THEN "for" ELSE "while",
                        !.nr_zones = @ + 1,
                        !.store = zb.nr_zones,
                        !.sector = dmz_zone_sector(stored)
                                     + dmz_zone_length(stored)]
  /\ UNCHANGED dev_nr_zones
  /\ ZUnch

NextZones ==
  \/ GetDevZonesBegin
  \/ WhileExit
  \/ EmulateZone
  \/ ReportZones
  \/ ReportedZone
SpecZones == InitZones /\ [][NextZones]_vars

\* ----------------------------------------------- claims on the zone table
RECURSIVE SumLen(_, _)
SumLen(zs, n) == IF n = 0 THEN 0 ELSE zs[n].len + SumLen(zs, n - 1)

\* No length is a wrapped-around __u64 (a negative representative stands for
\* a length of 2^64 minus a little, which no sum of this size can absorb).
LensInRange(zs) == \A j \in 1..Len(zs) : zs[j].len >= 0

TruthfulReports == zb.lies = 0 /\ ~zb.shrunk
AllRegular == \A j \in 1..Len(bdev) : bdev[j].type = "DMZ_TYPE_REGULAR"
AllZoned == \A j \in 1..Len(bdev) : bdev[j].type # "DMZ_TYPE_REGULAR"
ZonesBefore(d) == SumTo([j \in 1..Len(bdev) |-> bdev[j].nr_zones], d - 1)

\* C3: whenever dmz_get_dev_zones reports success, the zone array holds
\* exactly dev->nr_zones zones (the sum of the backends' zone counts) and
\* the zone lengths add up to the composite's capacity.  Stated here for
\* backends whose reports are truthful, where it already fails.
C3_SuccessCoversCapacity ==
  (zb.pc = "done" /\ zb.ret = 0 /\ TruthfulReports) =>
     /\ Len(zones) = dev_nr_zones
     /\ zb.nr_zones = dev_nr_zones
     /\ LensInRange(zones)
     /\ SumLen(zones, Len(zones)) = dev_capacity

\* The zones the claim C4 expects for regular backend d.
EmulatedAsClaimed(d) ==
  \A k \in 0..(bdev[d].nr_zones - 1) :
    LET z == zones[ZonesBefore(d) + k + 1] IN
      /\ z.len = Min(zone_nr_sectors, bdev[d].capacity - k * zone_nr_sectors)
      /\ z.type = "UNKNOWN" /\ z.cond = "NOT_WP" /\ z.wp = U64_MAX

\* C4: for a composite of regular backends the build succeeds (short of
\* running out of memory) and yields, for each backend of capacity C,
\* ceil(C / Z) zones of length Z, the last one truncated to the rest of C,
\* each of type Unknown, condition NotWritePointer and write pointer -1.
C4_RegularBackendEmulated ==
  (zb.pc = "done" /\ AllRegular /\ zb.msg # "nomem") =>
     /\ zb.ret = 0
     /\ zb.nr_zones = dev_nr_zones
     /\ \A d \in 1..Len(bdev) : EmulatedAsClaimed(d)

C9_ShortLastZoneAccepted ==
  (/\ zb.pc = "done" /\ AllZoned /\ TruthfulReports
   /\ zb.msg \notin {"nomem", "ioctl"}
   /\ \E j \in 1..Len(bdev) : /\ bdev[j].capacity % zone_nr_sectors # 0
                               /\ bdev[j].nr_zones >= 2) =>
     /\ zb.ret = 0
     /\ zb.sector = zones[dev_nr_zones].start + zones[dev_nr_zones].len

\* C10: every store into dev->zones is at an index below dev->nr_zones,
\* on the report path and on the emulation path.
C10_StoresWithinArray ==
  zb.pc \notin {"idle"} => zb.store < dev_nr_zones

\* ------------------------------------------------- claims on translation
Offset(j) == bdev[j].block_offset
CapBlocks(j) == dmz_sect2blk(bdev[j].capacity)

\* C1: every in-range address resolves to the one backend i with
\* offset[i] <= a < offset[i] + capacity[i] and to the local address
\* a - offset[i], for blocks and for sectors; distinct addresses resolve to
\* distinct pairs, and larger addresses never resolve to an earlier backend.
C1_TranslationBijective ==
  /\ (q.kind = "block" /\ q.addr < TotalBlocks(bdev)) =>
        /\ q.bdev \in 1..Len(bdev)
        /\ \A j \in 1..Len(bdev) :
             (Offset(j) <= q.addr /\ q.addr < Offset(j) + CapBlocks(j))
               <=> j = q.bdev
        /\ q.ret = q.addr - Offset(q.bdev)
  /\ (q.kind = "sector" /\ q.addr < dev_capacity) =>
        /\ q.bdev \in 1..Len(bdev)
        /\ \A j \in 1..Len(bdev) :
             (/\ dmz_blk2sect(Offset(j)) <= q.addr
              /\ q.addr < dmz_blk2sect(Offset(j)) + bdev[j].capacity)
               <=> j = q.bdev
        /\ q.ret = q.addr - dmz_blk2sect(Offset(q.bdev))
  /\ q.kind = "block" =>
        \A b \in 0..(TotalBlocks(bdev) - 1) :
          LET r == dmz_block_to_bdev(bdev, b) IN
            /\ b # q.addr => <<r.bdev, r.ret>> # <<q.bdev, q.ret>>
            /\ (b < q.addr /\ q.addr < TotalBlocks(bdev)) =>
                  Offset(r.bdev) <= Offset(q.bdev)
  /\ q.kind = "sector" =>
        \A b \in 0..(dev_capacity - 1) :
          LET r == dmz_sector_to_bdev(bdev, b) IN
            /\ b # q.addr => <<r.bdev, r.ret>> # <<q.bdev, q.ret>>
            /\ (b < q.addr /\ q.addr < dev_capacity) =>
                  Offset(r.bdev) <= Offset(q.bdev)

\* C1 witness: an address of the second backend, past its first block, has
\* been translated.
C1_Witness ==
  /\ q.kind = "block" /\ Len(bdev) = 2 /\ q.bdev = 2 /\ q.ret = 1
  /\ q.addr < TotalBlocks(bdev)

\* C2: an address beyond the composite's capacity resolves to no backend
\* and to the out-of-range sentinel.
C2_OutOfRangeHasNoOwner ==
  /\ (q.kind = "block" /\ q.addr > TotalBlocks(bdev)) =>
        (q.bdev = 0 /\ q.ret = U64_MAX)
  /\ (q.kind = "sector" /\ q.addr > dev_capacity) =>
        (q.bdev = 0 /\ q.ret = U64_MAX)

\* ------------------------------------------------------------ device open
Ops == {"DMZ_OP_FORMAT", "DMZ_OP_CHECK", "DMZ_OP_REPAIR"}

\* What libblkid answers in dmz_check_overwrite: the probe cannot be made,
\* the full probe fails, finds nothing, or finds a filesystem (TYPE), a
\* partition table (PTTYPE) or something with neither value.
Probes == {"new_fail", "probe_fail", "nothing", "TYPE", "PTTYPE", "other"}

\* -1 on error, 0 if something is on the disk, 1 if it appears unused.
dmz_check_overwrite(o) ==
  IF o.probe \in {"new_fail", "probe_fail"} THEN -1
  ELSE IF o.probe = "nothing" THEN 1
  ELSE 0

\* 0 when /proc/mounts cannot be opened, else whether it lists the path.
dmz_bdev_mounted(o) == IF ~o.mounts_ok THEN 0 ELSE IF o.mounted THEN 1 ELSE 0

\* -1 when the holders directory cannot be scanned, else whether it has an
\* entry besides "." and "..".
dmz_bdev_busy(o) ==
  IF o.holders = "scandir_fail" THEN -1
  ELSE IF o.holders = "held" THEN 1 ELSE 0

Refused(o, why) == [o EXCEPT !.pc = "failed", !.ret = -1, !.msg = why]

dmz_open_bdev(o) ==
  IF ~o.stat_ok THEN Refused(o, "stat")
  ELSE IF ~o.is_blk THEN Refused(o, "not_blk")
  ELSE IF /\ o.op = "DMZ_OP_FORMAT" /\ ~o.force
          /\ dmz_check_overwrite(o) <= 0
       THEN Refused(o, IF dmz_check_overwrite(o) = 0
                       THEN "use_force" ELSE "probe_failed")
  ELSE IF dmz_bdev_mounted(o) # 0 THEN Refused(o, "mounted")
  ELSE IF dmz_bdev_busy(o) # 0 THEN Refused(o, "in_use")
  ELSE IF ~o.open_ok THEN Refused(o, "open")
  ELSE IF ~o.info_ok
       THEN \* dmz_get_bdev_info failed: dmz_close_bdev, return -1
            [o EXCEPT !.pc = "failed", !.ret = -1, !.msg = "info",
                      !.opened = TRUE, !.fd = -1]
  ELSE [o EXCEPT !.pc = "open", !.ret = 0, !.opened = TRUE, !.fd = 3]

InitOpen ==
  /\ bdev = <<>> /\ dev_capacity = 0 /\ zone_nr_sectors = 0
  /\ dev_nr_zones = 0 /\ zones = <<>>
  /\ \E op \in Ops, force \in BOOLEAN, stat_ok \in BOOLEAN,
        is_blk \in BOOLEAN, probe \in Probes, mounts_ok \in BOOLEAN,
        mounted \in BOOLEAN,
        holders \in {"scandir_fail", "none", "held"},
        open_ok \in BOOLEAN, info_ok \in BOOLEAN :
       ob = [pc |-> "idle", op |-> op, force |-> force,
             stat_ok |-> stat_ok, is_blk |-> is_blk, probe |-> probe,
             mounts_ok |-> mounts_ok, mounted |-> mounted,
             holders |-> holders, open_ok |-> open_ok, info_ok |-> info_ok,
             fd |-> -1, ret |-> 0, msg |-> "none", opened |-> FALSE,
             holder |-> "unset"]
  /\ q = NoQuery /\ zb = ZbIdle /\ io = IoIdle /\ sy = SyIdle
  /\ disk = <<>>

OUnch == UNCHANGED <<bdev, dev_capacity, zone_nr_sectors, dev_nr_zones, zones,
                     q, zb, disk, io, sy>>

OpenBdev ==
  /\ ob.pc = "idle"
  /\ ob' = dmz_open_bdev(ob)
  /\ OUnch

\* Lines 645-678: the informational holder query.
GetBdevHolder ==
  /\ ob.pc = "idle" /\ ob.holder = "unset"
  /\ ob' = IF ~ob.stat_ok THEN [ob EXCEPT !.ret = -1, !.msg = "stat",
                                          !.holder = "untouched"]
           ELSE IF ~ob.is_blk THEN [ob EXCEPT !.ret = -1, !.msg = "not_blk",
                                              !.holder = "untouched"]
           ELSE IF dmz_bdev_mounted(ob) # 0
                THEN [ob EXCEPT !.ret = -1, !.msg = "mounted",
                                !.holder = "untouched"]
           ELSE IF dmz_bdev_busy(ob) = 0
                THEN [ob EXCEPT !.ret = 0, !.holder = "empty"]
           ELSE [ob EXCEPT !.ret = 0,
                           !.holder = IF ob.holders = "held"
                                      THEN "name" ELSE "untouched"]
  /\ OUnch

CloseBdev ==
  /\ ob.pc = "open"
  /\ ob' = IF ob.fd >= 0 THEN [ob EXCEPT !.pc = "closed", !.fd = -1]
           ELSE [ob EXCEPT !.pc = "closed"]
  /\ OUnch

NextOpen == OpenBdev \/ GetBdevHolder \/ CloseBdev
SpecOpen == InitOpen /\ [][NextOpen]_vars

ContentGatePassed(o) ==
  (o.op = "DMZ_OP_FORMAT" /\ ~o.force) => o.probe = "nothing"

\* C6: the device is opened for writing only when the block-device, content,
\* mounted and held checks all pass; the first failing check, in that
\* order, decides the outcome; force skips the content check only; a
\* mounted or held device is refused for every operation and force value.
C6_OpenOnlyAfterAllChecks ==
  ob.pc \in {"open", "failed", "closed"} =>
    /\ ob.opened =>
         /\ ob.stat_ok /\ ob.is_blk /\ ContentGatePassed(ob)
         /\ ~ob.mounted /\ ob.holders # "held"
    /\ (~ob.stat_ok \/ ~ob.is_blk) => ob.msg \in {"stat", "not_blk"}
    /\ (ob.stat_ok /\ ob.is_blk /\ ~ContentGatePassed(ob)) =>
         ob.msg \in {"use_force", "probe_failed"}
    /\ (ob.mounted \/ ob.holders = "held") => (ob.ret = -1 /\ ~ob.opened)

\* The rest of C6 when /proc/mounts can be read.
C6_HoldsWithMountTable == ob.mounts_ok => C6_OpenOnlyAfterAllChecks

\* ------------------------------------------------------------ metadata I/O
\* A block's content is 0 (anything that is not one of the buffers written)
\* or the number of the buffer a write stored there.
Data == 1..MaxData
Blocks == 0..MaxIOBlocks

\* Bytes of backend fd; a positioned transfer is whole only below its end.
DevBytes(fd) == bdev[fd].capacity * 2 ^ SECTOR_SHIFT
Whole(fd, off) == off >= 0 /\ off + DMZ_BLOCK_SIZE <= DevBytes(fd)

InitIO ==
  /\ InitComposite
  /\ PlainComposite
  /\ TotalBlocks(bdev) <= MaxIOBlocks
  /\ disk = [fd \in 1..Len(bdev) |->
               [b \in 0..(dmz_sect2blk(bdev[fd].capacity) - 1) |-> 0]]
  /\ io = [op |-> "none", block |-> 0, buf |-> 0, ret |-> 0,
           expect |-> [b \in Blocks |-> 0]]
  /\ q = NoQuery /\ zb = ZbIdle /\ ob = ObIdle /\ sy = SyIdle

IUnch == UNCHANGED <<bdev, dev_capacity, zone_nr_sectors, dev_nr_zones, zones,
                     q, zb, ob, sy>>

\* Lines 694-714.  pread returns DMZ_BLOCK_SIZE only for a whole transfer
\* without an I/O error.
dmz_read_block(block) ==
  LET loc == dmz_block_to_bdev(bdev, block)
      off == loc.ret * 2 ^ DMZ_BLOCK_SHIFT
  IN /\ \/ /\ Whole(loc.bdev, off)
           /\ io' = [io EXCEPT !.op = "read", !.block = block, !.ret = 0,
                               !.buf = disk[loc.bdev][off \div DMZ_BLOCK_SIZE]]
        \/ io' = [io EXCEPT !.op = "read", !.block = block, !.ret = -1,
                            !.buf = 0]
     /\ disk' = disk

\* Mutant: the write is positioned by the composite block number.
dmz_write_block_unrebased(block, buf) ==
  LET loc == dmz_block_to_bdev(bdev, block)
      off == block * 2 ^ DMZ_BLOCK_SHIFT
      at == off \div DMZ_BLOCK_SIZE
  IN \/ /\ Whole(loc.bdev, off)
        /\ disk' = [disk EXCEPT ![loc.bdev][at] = buf]
        /\ io' = [io EXCEPT !.op = "write", !.block = 0, !.ret = 0,
                            !.buf = 0, !.expect[block] = buf]
     \/ /\ disk' = IF Whole(loc.bdev, off)
                   THEN [disk EXCEPT ![loc.bdev][at] = 0] ELSE disk
        /\ io' = [io EXCEPT !.op = "write", !.block = 0, !.ret = -1,
                            !.buf = 0, !.expect[block] = 0]

\* Lines 719-738.  A pwrite that does not return DMZ_BLOCK_SIZE leaves the
\* block with unknown content (0).  io.expect[b] remembers the buffer of the
\* last successful write to block number b (0 after a failed one); io.block
\* and io.buf are the block number and the buffer of the last read.
dmz_write_block(block, buf) ==
  LET loc == dmz_block_to_bdev(bdev, block)
      off == loc.ret * 2 ^ DMZ_BLOCK_SHIFT
      at == off \div DMZ_BLOCK_SIZE
  IN \/ /\ Whole(loc.bdev, off)
        /\ disk' = [disk EXCEPT ![loc.bdev][at] = buf]
        /\ io' = [io EXCEPT !.op = "write", !.block = 0, !.ret = 0,
                            !.buf = 0, !.expect[block] = buf]
     \/ /\ disk' = IF Whole(loc.bdev, off)
                   THEN [disk EXCEPT ![loc.bdev][at] = 0] ELSE disk
        /\ io' = [io EXCEPT !.op = "write", !.block = 0, !.ret = -1,
                            !.buf = 0, !.expect[block] = 0]

ReadBlock == (\E block \in Blocks : dmz_read_block(block)) /\ IUnch
WriteBlock ==
  (\E block \in Blocks, buf \in Data : dmz_write_block(block, buf)) /\ IUnch

NextIO == ReadBlock \/ WriteBlock
SpecIO == InitIO /\ [][NextIO]_vars

\* C7: a successful read of an in-range block returns the buffer of the last
\* successful write to that block number, whatever was written to other
\* block numbers meanwhile; no two in-range block numbers share a location.
C7_WriteReadRoundTrip ==
  /\ (/\ io.op = "read" /\ io.ret = 0 /\ io.block < TotalBlocks(bdev)
      /\ io.expect[io.block] # 0) => io.buf = io.expect[io.block]
  /\ \A a \in Blocks :
        (a < TotalBlocks(bdev) /\ io.expect[a] # 0) =>
           disk[dmz_block_to_bdev(bdev, a).bdev][dmz_block_to_bdev(bdev, a).ret]
             = io.expect[a]

\* C7 witness: a block of the second backend read back after a write to it
\* and a later successful write to another block.
C7_Witness ==
  /\ io.op = "read" /\ io.ret = 0 /\ Len(bdev) = 2
  /\ dmz_block_to_bdev(bdev, io.block).bdev = 2
  /\ io.expect[io.block] # 0 /\ io.buf = io.expect[io.block]
  /\ \E a \in Blocks : a # io.block /\ io.expect[a] \notin {0, io.buf}

\* -------------------------------------------------------------------- sync
InitSync ==
  /\ InitComposite
  /\ sy = [pc |-> "idle", i |-> 0, issued |-> <<>>, flushed |-> <<>>,
           ret |-> 0]
  /\ q = NoQuery /\ zb = ZbIdle /\ ob = ObIdle /\ io = IoIdle
  /\ disk = <<>>

SUnch == UNCHANGED <<bdev, dev_capacity, zone_nr_sectors, dev_nr_zones, zones,
                     q, zb, ob, disk, io>>

\* Line 749-751: the message, then the loop starts at backend 0 (here 1).
SyncBegin ==
  /\ sy.pc = "idle"
  /\ sy' = [sy EXCEPT !.pc = "loop", !.i = 1]
  /\ SUnch

\* Mutant: a failed fsync does not end the loop.
Fsync_keeps_going(ok) ==
  IF ok
  THEN [sy EXCEPT !.issued = Append(@, sy.i), !.flushed = Append(@, sy.i),
                  !.i = @ + 1]
  ELSE [sy EXCEPT !.issued = Append(@, sy.i), !.i = @ + 1]

\* Lines 751-760: one pass of the loop; fsync fails or not.
Fsync(ok) ==
  IF ok
  THEN [sy EXCEPT !.issued = Append(@, sy.i), !.flushed = Append(@, sy.i),
                  !.i = @ + 1]
  ELSE [sy EXCEPT !.issued = Append(@, sy.i), !.pc = "done", !.ret = -1]

SyncStep ==
  /\ sy.pc = "loop" /\ sy.i <= Len(bdev)
  /\ \E ok \in BOOLEAN : sy' = Fsync(ok)
  /\ SUnch

\* Line 762.
SyncEnd ==
  /\ sy.pc = "loop" /\ sy.i > Len(bdev)
  /\ sy' = [sy EXCEPT !.pc = "done", !.ret = 0]
  /\ SUnch

NextSync == SyncBegin \/ SyncStep \/ SyncEnd
SpecSync == InitSync /\ [][NextSync]_vars

Upto(n) == [j \in 1..n |-> j]

\* C8: the flushes are issued to backends 0, 1, 2, ... in that order; a
\* failed flush of backend i ends the call with an error, with exactly the
\* backends before i flushed and none after i touched; success means every
\* backend was flushed.
C8_SyncAscendingStopsAtFailure ==
  /\ sy.issued = Upto(Len(sy.issued))
  /\ sy.flushed = Upto(Len(sy.flushed))
  /\ Len(sy.issued) <= Len(bdev)
  /\ (sy.pc = "done" /\ sy.ret = -1) =>
        /\ Len(sy.issued) = sy.i
        /\ Len(sy.flushed) = sy.i - 1
  /\ (sy.pc = "done" /\ sy.ret = 0) => sy.flushed = Upto(Len(bdev))
  /\ (sy.pc = "done" /\ sy.flushed = Upto(Len(bdev))) => sy.ret = 0

\* C8 witness: the flush of the second backend failed after the first was
\* flushed.
C8_Witness ==
  /\ sy.pc = "done" /\ sy.ret = -1 /\ Len(bdev) = 2
  /\ sy.flushed = <<1>> /\ sy.issued = <<1, 2>>

====
